---- MODULE Spec2Model ----
(***************************************************************************)
(* State-machine model of JobSearchAI (job_job.py) and DocumentManager     *)
(* (document_manager.py): ingestion of uploaded files into the FAISS       *)
(* vector store, the three query operations over the conversational        *)
(* retrieval chain, and the full clear.                                    *)
(***************************************************************************)
EXTENDS Integers, Sequences, FiniteSets, TLC

\* ---------------------------------------------------------------- bounds
MaxTurns == 3      \* turns the conversation memory may hold
MaxIds == 3        \* docstore identifiers handed out in one behaviour
MaxBatch == 2      \* file paths in one add_documents call

\* ---------------------------------------------------------------- inputs
\* The files a user may hand to the application.
Files == {"resume.pdf", "notes.md", "photo.png", "broken.pdf"}

\* os.path.splitext(file_path)[1].lower()
FileExt(file_path) ==
    CASE file_path = "resume.pdf" -> ".pdf"
      [] file_path = "notes.md" -> ".md"
      [] file_path = "photo.png" -> ".png"
      [] file_path = "broken.pdf" -> ".pdf"

\* Files whose bytes the loader cannot parse.
CorruptFiles == {"broken.pdf"}

\* Number of chunks the text splitter cuts a loadable file into.
NumChunks(file_path) ==
    CASE file_path = "resume.pdf" -> 2
      [] file_path = "notes.md" -> 1
      [] OTHER -> 1

QueryOps == {"optimize_resume", "prepare_interview_questions",
             "draft_application_response"}
Answers == {"generated answer"}

PleaseUpload == "Please upload your resume and experience documents first."

\* The order in which the upload widget lists the files.
FileList == <<"photo.png", "resume.pdf", "broken.pdf", "notes.md">>

\* The files at the positions S of FileList, in that order.
RECURSIVE Listed(_)
Listed(S) ==
    IF S = {} THEN <<>>
    ELSE LET m == CHOOSE x \in S : \A y \in S : x <= y
         IN <<FileList[m]>> \o Listed(S \ {m})

\* The file-path lists of 1..MaxBatch files.
Batches ==
    {Listed(S) : S \in {T \in SUBSET (1..Len(FileList)) :
                            Cardinality(T) >= 1 /\ Cardinality(T) <= MaxBatch}}
ChatBatches == {<<"notes.md">>}

\* ----------------------------------------------------------------- state
VARIABLES
    vectorstore,   \* DocumentManager.vectorstore: None, or the FAISS index entries
    disk,          \* config.VECTOR_STORE_PATH: the directory and the saved index
    uploads,       \* the files present in config.UPLOAD_DIR
    memory,        \* JobSearchAI.memory: the (question, answer) turns
    qa_chain,      \* JobSearchAI.qa_chain: "None" or "chain"
    nextId,        \* docstore identifiers handed out so far (uuid4 freshness)
    last,          \* what the caller observed of the last operation
    adds           \* the add_documents calls in flight, one per calling thread

vars == <<vectorstore, disk, uploads, memory, qa_chain, nextId, last, adds>>

\* The threads that may call add_documents at the same time.
Threads == {1, 2}

\* A thread that is not inside add_documents.
Idle == [pc |-> "idle", file_paths |-> <<>>, documents |-> <<>>, is_none |-> FALSE,
         new |-> <<>>, embedded |-> FALSE, saved |-> FALSE]

NoneStore == [set |-> FALSE, entries |-> <<>>]
Store(entries) == [set |-> TRUE, entries |-> entries]

NoIndex == [dir |-> TRUE, present |-> FALSE, intact |-> FALSE, entries |-> <<>>]
Removed == [dir |-> FALSE, present |-> FALSE, intact |-> FALSE, entries |-> <<>>]
Saved(entries) == [dir |-> TRUE, present |-> TRUE, intact |-> TRUE, entries |-> entries]

Observed(op, outcome, response) ==
    [op |-> op, outcome |-> outcome, response |-> response, remote |-> FALSE,
     chat_history |-> <<>>, file_paths |-> <<>>, reported |-> {}, embed_fail |-> {},
     chunks |-> 0]

\* ------------------------------------------------------ DocumentManager
SupportedExt == {".pdf", ".txt", ".md"}

\* load_document: the documents of a file, or the exception it raises.
load_document(file_path, dir) ==
    IF FileExt(file_path) \notin SupportedExt
    THEN [raised |-> "ValueError: Unsupported file type", docs |-> <<>>]
    ELSE IF file_path \notin dir \/ file_path \in CorruptFiles
    THEN [raised |-> "loader error", docs |-> <<>>]
    ELSE [raised |-> "none",
          docs |-> [i \in 1..NumChunks(file_path) |->
                       [source_file |-> file_path, part |-> i]]]

\* The try/except around the whole loop: the first failing file ends the batch.
RECURSIVE process_documents_aborting(_, _)
process_documents_aborting(file_paths, dir) ==
    IF file_paths = <<>> THEN <<>>
    ELSE LET r == load_document(Head(file_paths), dir)
         IN IF r.raised = "none"
            THEN r.docs \o process_documents_aborting(Tail(file_paths), dir)
            ELSE <<>>

\* process_documents: the chunks of every file that loads, in batch order.
RECURSIVE process_documents(_, _)
process_documents(file_paths, dir) ==
    IF file_paths = <<>> THEN <<>>
    ELSE LET r == load_document(Head(file_paths), dir)
         IN (IF r.raised = "none" THEN r.docs ELSE <<>>)
            \o process_documents(Tail(file_paths), dir)

\* The files a list of chunks comes from.
Sources(documents) == {documents[i].source_file : i \in 1..Len(documents)}

\* The "Error processing ..." lines process_documents prints.
reported_errors(file_paths, dir) ==
    {<<file_paths[i], load_document(file_paths[i], dir).raised>> :
        i \in {j \in 1..Len(file_paths) : load_document(file_paths[j], dir).raised # "none"}}

\* Identifiers numbered by position in the call, as an index-keyed docstore would.
positional_id(first, i) == i

\* The identifier FAISS gives the i-th text of a from_documents call.
new_id(first, i) == first + i

\* FAISS.from_documents: one entry per chunk, each under a new identifier.
from_documents(documents, first) ==
    [i \in 1..Len(documents) |->
        [id |-> new_id(first, i), source_file |-> documents[i].source_file,
         part |-> documents[i].part]]

Ids(entries) == {entries[i].id : i \in 1..Len(entries)}

\* FAISS.merge_from: raises when an identifier is already in the docstore.
merge_raises(entries, new) == Ids(entries) \cap Ids(new) # {}
merge_from(entries, new) == entries \o new

\* len(vectorstore.docstore._dict)
docstore_len(vs) == Cardinality(Ids(vs.entries))

\* JobSearchAI.get_document_count
get_document_count(vs) == IF vs.set THEN docstore_len(vs) ELSE 0

\* DocumentManager.get_document_count
uploaded_count(dir) == Cardinality(dir)

\* What a save_local that raises partway may leave on disk.
save_failures(d) == {d, [dir |-> TRUE, present |-> TRUE, intact |-> FALSE, entries |-> <<>>]}

\* What a shutil.rmtree that raises partway may leave on disk.
rmtree_failures(d) ==
    {d, [d EXCEPT !.intact = FALSE], [d EXCEPT !.present = FALSE, !.intact = FALSE,
                                              !.entries = <<>>]}

\* _setup_qa_chain: a chain is built only when an index is present.
setup_qa_chain(vs, chain) == IF vs.set THEN "chain" ELSE chain

\* A new ConversationBufferMemory for every chain.
fresh_memory(mem) == <<>>

\* The history left in place.
memory_clear_skipped(mem) == mem

\* The memory handed to ConversationalRetrievalChain.from_llm: self.memory.
chain_memory(mem) == mem

\* self.memory.clear()
memory_clear(mem) == <<>>

\* ConversationBufferMemory.save_context, run by the chain after the answer.
save_context(mem, question, answer) ==
    Append(mem, [question |-> question, answer |-> answer])

\* ------------------------------------------------------------------ Init
Init ==
    /\ vectorstore = NoneStore
    /\ disk = NoIndex
    /\ uploads = {}
    /\ memory = <<>>
    /\ qa_chain = setup_qa_chain(NoneStore, "None")
    /\ nextId = 0
    /\ last = Observed("__init__", "ok", "none")
    /\ adds = [t \in Threads |-> Idle]

\* --------------------------------------------------------------- actions
\* DocumentManager.save_uploaded_file
save_uploaded_file(f) ==
    /\ uploads' = uploads \cup {f}
    /\ last' = Observed("save_uploaded_file", "ok", f)
    /\ UNCHANGED <<vectorstore, disk, memory, qa_chain, nextId, adds>>

\* create_vectorstore: the index and the disk after the call.
create_vectorstore(documents, embed_ok, save_ok, d2) ==
    IF documents = <<>> \/ ~embed_ok
    THEN /\ vectorstore' = vectorstore
         /\ disk' = disk
         /\ nextId' = nextId
    ELSE LET new == from_documents(documents, nextId)
         IN /\ nextId' = nextId + Len(documents)
            /\ IF vectorstore.set /\ merge_raises(vectorstore.entries, new)
               THEN /\ vectorstore' = vectorstore
                    /\ disk' = disk
               ELSE /\ vectorstore' =
                          IF vectorstore.set
                          THEN Store(merge_from(vectorstore.entries, new))
                          ELSE Store(new)
                    /\ disk' = IF save_ok THEN Saved(vectorstore'.entries) ELSE d2

\* JobSearchAI.add_documents
add_documents(file_paths, embed_fail, save_ok, d2) ==
    LET documents == process_documents(file_paths, uploads)
    IN /\ nextId + Len(documents) <= MaxIds
       /\ embed_fail \subseteq Sources(documents)
       /\ d2 \in save_failures(disk)
       /\ (save_ok \/ documents = <<>> \/ embed_fail # {}) => d2 = disk
       /\ (documents = <<>> \/ embed_fail # {}) => save_ok
       /\ create_vectorstore(documents, embed_fail = {}, save_ok, d2)
       /\ qa_chain' = setup_qa_chain(vectorstore', qa_chain)
       /\ last' = [Observed("add_documents", "ok", "none") EXCEPT
                      !.file_paths = file_paths,
                      !.reported = reported_errors(file_paths, uploads),
                      !.embed_fail = embed_fail,
                      !.chunks = Len(documents),
                      !.response = IF save_ok THEN "none" ELSE "save failed"]
       /\ memory' = chain_memory(memory)
       /\ UNCHANGED <<uploads, adds>>

\* The chain called without the `if self.qa_chain` test.
run_query_unguarded(op, answer, remote_ok) ==
    IF remote_ok
    THEN /\ memory' = save_context(memory, op, answer)
         /\ last' = [Observed(op, "ok", answer) EXCEPT
                        !.remote = TRUE, !.chat_history = memory]
    ELSE /\ memory' = memory
         /\ last' = [Observed(op, "raised", "completion error") EXCEPT
                        !.remote = TRUE, !.chat_history = memory]

\* The turn saved before the completion call returns.
run_query_saves_first(op, answer, remote_ok) ==
    IF qa_chain # "None"
    THEN /\ memory' = save_context(memory, op, answer)
         /\ last' = [Observed(op, IF remote_ok THEN "ok" ELSE "raised",
                               IF remote_ok THEN answer ELSE "completion error") EXCEPT
                        !.remote = TRUE, !.chat_history = memory]
    ELSE /\ remote_ok
         /\ answer = CHOOSE a \in Answers : TRUE
         /\ memory' = memory
         /\ last' = Observed(op, "ok", PleaseUpload)

\* The body the three query operations share: build the query, then either
\* run the chain or return the fixed response.
run_query(op, answer, remote_ok) ==
    IF qa_chain # "None"
    THEN IF remote_ok
         THEN /\ memory' = save_context(memory, op, answer)
              /\ last' = [Observed(op, "ok", answer) EXCEPT
                             !.remote = TRUE, !.chat_history = memory]
         ELSE /\ memory' = memory
              /\ last' = [Observed(op, "raised", "completion error") EXCEPT
                             !.remote = TRUE, !.chat_history = memory]
    ELSE /\ remote_ok
         /\ answer = CHOOSE a \in Answers : TRUE
         /\ memory' = memory
         /\ last' = Observed(op, "ok", PleaseUpload)

\* JobSearchAI.optimize_resume
optimize_resume(answer, remote_ok) ==
    /\ run_query("optimize_resume", answer, remote_ok)
    /\ UNCHANGED <<vectorstore, disk, uploads, qa_chain, nextId, adds>>

\* JobSearchAI.prepare_interview_questions
prepare_interview_questions(answer, remote_ok) ==
    /\ run_query("prepare_interview_questions", answer, remote_ok)
    /\ UNCHANGED <<vectorstore, disk, uploads, qa_chain, nextId, adds>>

\* JobSearchAI.draft_application_response
draft_application_response(answer, remote_ok) ==
    /\ run_query("draft_application_response", answer, remote_ok)
    /\ UNCHANGED <<vectorstore, disk, uploads, qa_chain, nextId, adds>>

\* JobSearchAI.clear_all_data, with the step of clear_vectorstore that raises
\* (fail = "none" when every step succeeds).
clear_all_data(fail, d2, left) ==
    /\ vectorstore' = NoneStore
    /\ CASE fail = "rmtree" ->
              /\ disk.dir
              /\ d2 \in rmtree_failures(disk)
              /\ left = uploads
              /\ disk' = d2
              /\ uploads' = uploads
              /\ UNCHANGED <<memory, qa_chain>>
              /\ last' = Observed("clear_all_data", "raised", "OSError: rmtree")
         [] fail = "remove" ->
              /\ d2 = Removed
              /\ left # {}
              /\ left \subseteq uploads
              /\ disk' = Removed
              /\ uploads' = left
              /\ UNCHANGED <<memory, qa_chain>>
              /\ last' = Observed("clear_all_data", "raised", "OSError: remove")
         [] fail = "none" ->
              /\ d2 = Removed
              /\ left = {}
              /\ disk' = Removed
              /\ uploads' = {}
              /\ memory' = memory_clear(memory)
              /\ qa_chain' = "None"
              /\ last' = Observed("clear_all_data", "ok", "none")
    /\ UNCHANGED <<nextId, adds>>

\* A failed load answered with an empty index object instead of None.
load_existing_empty_index(d, load_raises) ==
    IF d.present /\ ~load_raises THEN Store(d.entries)
    ELSE IF d.present THEN Store(<<>>) ELSE NoneStore

\* load_existing_vectorstore: the saved index when index.faiss exists and
\* FAISS.load_local does not raise, None otherwise.
load_existing_vectorstore(d, load_raises) ==
    IF d.present /\ ~load_raises THEN Store(d.entries) ELSE NoneStore

\* JobSearchAI.__init__ in a new process: the index is loaded from disk when
\* index.faiss exists and FAISS.load_local does not raise.
restart(load_raises) ==
    /\ load_raises => disk.present
    /\ (disk.present /\ ~disk.intact) => load_raises
    /\ vectorstore' = load_existing_vectorstore(disk, load_raises)
    /\ memory' = <<>>
    /\ qa_chain' = setup_qa_chain(vectorstore', "None")
    /\ last' = Observed("__init__", "ok",
                        IF load_raises THEN "Error loading vector store" ELSE "none")
    /\ UNCHANGED <<disk, uploads, nextId, adds>>

\* The files named by a set of batches.
FilesOf(batches) == UNION {{b[i] : i \in 1..Len(b)} : b \in batches}

\* A query that appends a turn runs while the memory holds fewer than `turns`.
Room(turns, remote_ok) == (qa_chain # "None" /\ remote_ok) => Len(memory) < turns

\* Every operation of the session, over the given batches and history bound.
NextOver(batches, turns) ==
    \/ \E f \in FilesOf(batches) : save_uploaded_file(f)
    \/ \E b \in batches : \E e \in SUBSET Sources(process_documents(b, uploads)),
          s \in BOOLEAN, d2 \in save_failures(disk) : add_documents(b, e, s, d2)
    \/ \E a \in Answers, ok \in BOOLEAN : Room(turns, ok) /\ optimize_resume(a, ok)
    \/ \E a \in Answers, ok \in BOOLEAN : Room(turns, ok) /\ prepare_interview_questions(a, ok)
    \/ \E a \in Answers, ok \in BOOLEAN : Room(turns, ok) /\ draft_application_response(a, ok)
    \/ \E fail \in {"none", "rmtree", "remove"}, d2 \in rmtree_failures(disk) \cup {Removed},
          left \in SUBSET uploads : clear_all_data(fail, d2, left)
    \/ \E load_raises \in BOOLEAN : restart(load_raises)

\* Ingestion in full; no query gets an answer, so the memory stays empty.
Next == NextOver(Batches, 0)
Spec == Init /\ [][Next]_vars

\* The conversation in full, over repeated uploads of one file.
NextChat == NextOver(ChatBatches, MaxTurns)
SpecChat == Init /\ [][NextChat]_vars

\* ------------------------------------------- overlapping add_documents
\* add_documents holds no lock, so two calls interleave between its statements.
\* Each action below is one statement of add_documents / create_vectorstore,
\* run by thread t.

ConcBatches == {<<"resume.pdf">>, <<"notes.md">>, <<"photo.png", "notes.md">>}

\* A session constructed with the files uploaded and either no saved index or
\* the index an earlier session saved.
InitConc ==
    /\ uploads = {"resume.pdf", "notes.md", "photo.png"}
    /\ \E earlier \in {<<>>, from_documents(process_documents(<<"notes.md">>, uploads), 0)} :
          /\ disk = IF earlier = <<>> THEN NoIndex ELSE Saved(earlier)
          /\ vectorstore = IF earlier = <<>> THEN NoneStore ELSE Store(earlier)
          /\ nextId = Len(earlier)
    /\ memory = <<>>
    /\ qa_chain = setup_qa_chain(vectorstore, "None")
    /\ last = Observed("__init__", "ok", "none")
    /\ adds = [t \in Threads |-> Idle]

\* add_documents is entered.
begin_add(t, file_paths) ==
    /\ adds[t].pc = "idle"
    /\ adds' = [adds EXCEPT ![t] = [Idle EXCEPT !.pc = "process_documents",
                                                !.file_paths = file_paths]]
    /\ UNCHANGED <<vectorstore, disk, uploads, memory, qa_chain, nextId, last>>

\* documents = self.document_manager.process_documents(file_paths); an empty
\* list makes create_vectorstore return at once.
step_process_documents(t) ==
    /\ adds[t].pc = "process_documents"
    /\ LET documents == process_documents(adds[t].file_paths, uploads)
       IN adds' = [adds EXCEPT ![t].documents = documents,
                               ![t].pc = IF documents = <<>> THEN "setup_qa_chain"
                                         ELSE "test_none"]
    /\ UNCHANGED <<vectorstore, disk, uploads, memory, qa_chain, nextId, last>>

\* if self.vectorstore is None
step_test_none(t) ==
    /\ adds[t].pc = "test_none"
    /\ adds' = [adds EXCEPT ![t].is_none = ~vectorstore.set, ![t].pc = "from_documents"]
    /\ UNCHANGED <<vectorstore, disk, uploads, memory, qa_chain, nextId, last>>

\* FAISS.from_documents: the embedding call; its exception ends the try block.
step_from_documents(t, embed_ok) ==
    /\ adds[t].pc = "from_documents"
    /\ nextId + Len(adds[t].documents) <= MaxIds
    /\ IF embed_ok
       THEN /\ adds' = [adds EXCEPT ![t].new = from_documents(adds[t].documents, nextId),
                                    ![t].embedded = TRUE,
                                    ![t].pc = "assign"]
            /\ nextId' = nextId + Len(adds[t].documents)
       ELSE /\ adds' = [adds EXCEPT ![t].pc = "setup_qa_chain"]
            /\ nextId' = nextId
    /\ UNCHANGED <<vectorstore, disk, uploads, memory, qa_chain, last>>

\* self.vectorstore = <the new index>, or self.vectorstore.merge_from(<it>),
\* by the branch the test chose.
step_assign(t) ==
    /\ adds[t].pc = "assign"
    /\ IF adds[t].is_none
       THEN /\ vectorstore' = Store(adds[t].new)
            /\ adds' = [adds EXCEPT ![t].pc = "save_local"]
       ELSE IF ~vectorstore.set \/ merge_raises(vectorstore.entries, adds[t].new)
       THEN /\ vectorstore' = vectorstore
            /\ adds' = [adds EXCEPT ![t].pc = "setup_qa_chain"]
       ELSE /\ vectorstore' = Store(merge_from(vectorstore.entries, adds[t].new))
            /\ adds' = [adds EXCEPT ![t].pc = "save_local"]
    /\ UNCHANGED <<disk, uploads, memory, qa_chain, nextId, last>>

\* self.vectorstore.save_local(config.VECTOR_STORE_PATH)
step_save_local(t, save_ok, d2) ==
    /\ adds[t].pc = "save_local"
    /\ d2 \in save_failures(disk)
    /\ save_ok => d2 = disk
    /\ disk' = IF save_ok /\ vectorstore.set THEN Saved(vectorstore.entries) ELSE d2
    /\ adds' = [adds EXCEPT ![t].saved = save_ok, ![t].pc = "setup_qa_chain"]
    /\ UNCHANGED <<vectorstore, uploads, memory, qa_chain, nextId, last>>

\* self._setup_qa_chain(), and the return of add_documents.
step_setup_qa_chain(t) ==
    /\ adds[t].pc = "setup_qa_chain"
    /\ qa_chain' = setup_qa_chain(vectorstore, qa_chain)
    /\ adds' = [adds EXCEPT ![t].pc = "done"]
    /\ last' = [Observed("add_documents", "ok", "none") EXCEPT
                   !.file_paths = adds[t].file_paths,
                   !.reported = reported_errors(adds[t].file_paths, uploads),
                   !.chunks = Len(adds[t].documents)]
    /\ UNCHANGED <<vectorstore, disk, uploads, memory, nextId>>

NextConc ==
    \/ \E t \in Threads, b \in ConcBatches : begin_add(t, b)
    \/ \E t \in Threads : step_process_documents(t)
    \/ \E t \in Threads : step_test_none(t)
    \/ \E t \in Threads, embed_ok \in BOOLEAN : step_from_documents(t, embed_ok)
    \/ \E t \in Threads : step_assign(t)
    \/ \E t \in Threads, save_ok \in BOOLEAN, d2 \in save_failures(disk) :
          step_save_local(t, save_ok, d2)
    \/ \E t \in Threads : step_setup_qa_chain(t)

SpecConc == InitConc /\ [][NextConc]_vars

TypeOK ==
    /\ vectorstore.set \in BOOLEAN
    /\ qa_chain \in {"None", "chain"}
    /\ uploads \subseteq Files
    /\ Len(memory) <= MaxTurns
    /\ nextId <= MaxIds

\* ---------------------------------------------------------------- claims
IsQuery(o) == o.op \in QueryOps
ClearedOk(o) == o.op = "clear_all_data" /\ o.outcome = "ok"
Ready(chain) == chain # "None"
IsAdd(o) == o.op = "add_documents"

\* The operations of JobSearchAI that touch the engine.
SessionOps == QueryOps \cup {"__init__", "add_documents", "clear_all_data"}

\* The entries of an index that come from file f.
CountOf(entries, f) == Cardinality({i \in 1..Len(entries) : entries[i].source_file = f})

\* The files of a batch that load.
Loadable(b, dir) == {b[i] : i \in {j \in 1..Len(b) : load_document(b[j], dir).raised = "none"}}

\* C1: a query made while qa_chain is None returns the fixed "please upload
\* documents" response without raising, makes no remote completion call, and
\* leaves the conversation history and the index (in memory and on disk)
\* unchanged.
UninitializedQueryIsInert ==
    [][(~Ready(qa_chain) /\ IsQuery(last')) =>
          /\ last'.outcome = "ok"
          /\ last'.response = PleaseUpload
          /\ ~last'.remote
          /\ memory' = memory
          /\ vectorstore' = vectorstore
          /\ disk' = disk
          /\ qa_chain' = qa_chain]_vars

\* C1 witness: after an ingestion and a clear, a query got the fixed response.
UninitializedQueryAnswered ==
    /\ IsQuery(last) /\ last.response = PleaseUpload /\ ~last.remote
    /\ ~Ready(qa_chain) /\ nextId > 0

\* C2: after every operation that completed, the engine is ready (qa_chain
\* set) if and only if an index is present (vectorstore is not None).
ReadyIffIndexPresent ==
    (last.outcome = "ok" /\ last.op \in SessionOps) => (Ready(qa_chain) <=> vectorstore.set)

\* C3: a completed clear_all_data leaves no uploaded file, no index in memory
\* (chunk count 0), no index on disk, an empty history and qa_chain None, and
\* the query that follows it returns the fixed response without a remote call.
ClearResetsEverything ==
    [][/\ ClearedOk(last') =>
             /\ uploaded_count(uploads') = 0
             /\ ~vectorstore'.set
             /\ get_document_count(vectorstore') = 0
             /\ ~disk'.present /\ disk'.entries = <<>>
             /\ memory' = <<>>
             /\ ~Ready(qa_chain')
       /\ (ClearedOk(last) /\ IsQuery(last')) =>
             /\ last'.response = PleaseUpload
             /\ last'.outcome = "ok"
             /\ ~last'.remote]_vars

\* C3 witness: a completed clear of a session that had ingested chunks, and
\* the query after it answered with the fixed response.
ClearedThenAsked ==
    /\ IsQuery(last) /\ last.response = PleaseUpload
    /\ nextId > 0 /\ ~vectorstore.set /\ ~disk.dir /\ uploads = {} /\ memory = <<>>

\* C4: clear_all_data is atomic for its caller: a call either clears the index,
\* clears the history and resets the engine, or leaves all three as they were,
\* also when a step of the clear raises.
ClearIsAtomic ==
    [][last'.op = "clear_all_data" =>
          \/ (~vectorstore'.set /\ memory' = <<>> /\ ~Ready(qa_chain'))
          \/ (vectorstore' = vectorstore /\ memory' = memory /\ qa_chain' = qa_chain)]_vars

\* C5: in the ready state a query makes the remote call; when the call fails the
\* failure is raised to the caller, the history is what it was, the engine stays
\* ready and the index is untouched, and after a failed query the same
\* operation can be run again.
FailedQueryKeepsHistory ==
    [][/\ (Ready(qa_chain) /\ IsQuery(last') /\ last'.outcome = "raised") =>
             /\ last'.remote
             /\ memory' = memory
             /\ qa_chain' = qa_chain
             /\ vectorstore' = vectorstore
       /\ (Ready(qa_chain) /\ IsQuery(last') /\ last'.outcome = "ok") =>
             /\ last'.remote
             /\ Len(memory') = Len(memory) + 1
       /\ (IsQuery(last) /\ last.outcome = "raised") =>
             /\ Ready(qa_chain)
             /\ ENABLED run_query(last.op, CHOOSE a \in Answers : TRUE, TRUE)]_vars

\* C5 witness: a query failed with turns already in the history, which it kept.
QueryFailedWithHistory ==
    /\ IsQuery(last) /\ last.outcome = "raised" /\ last.remote
    /\ Len(memory) = 2 /\ last.chat_history = memory

\* C6: the history grows by exactly the (question, answer) turn of each
\* answered query, in order, whichever of the three operations asks; its prompt
\* carries the whole history before it; add_documents, failed queries and
\* uploads leave the history alone; only a completed clear_all_data (or a new
\* session) empties it.
HistoryIsTheAnsweredQueries ==
    [][IF IsQuery(last') /\ last'.outcome = "ok" /\ last'.remote
       THEN /\ memory' = Append(memory, [question |-> last'.op, answer |-> last'.response])
            /\ last'.chat_history = memory
       ELSE IF ClearedOk(last') \/ last'.op = "__init__"
       THEN memory' = <<>>
       ELSE memory' = memory]_vars

\* C6 witness: two optimize_resume turns in the history, and a third
\* optimize_resume call whose prompt carried both.
ThirdPromptHasBothTurns ==
    /\ Len(memory) = 3
    /\ \A i \in 1..3 : memory[i].question = "optimize_resume"
    /\ last.op = "optimize_resume" /\ last.outcome = "ok"
    /\ last.chat_history = SubSeq(memory, 1, 2)
    /\ get_document_count(vectorstore) > 1

\* C7: in an add_documents whose embedding call succeeds, every file of the
\* batch that fails to load is reported (an unsupported extension with the
\* unsupported-type error) and skipped, and the chunks of every other file of
\* the batch are added to the index.
LoadFailureSkipsOnlyThatFile ==
    [][(IsAdd(last') /\ last'.embed_fail = {}) =>
          LET b == last'.file_paths
          IN /\ \A f \in Loadable(b, uploads) :
                   CountOf(vectorstore'.entries, f)
                      = CountOf(vectorstore.entries, f) + NumChunks(f)
             /\ \A i \in 1..Len(b) :
                   /\ b[i] \notin Loadable(b, uploads) =>
                         /\ \E r \in last'.reported : r[1] = b[i]
                         /\ CountOf(vectorstore'.entries, b[i])
                               = CountOf(vectorstore.entries, b[i])
                   /\ FileExt(b[i]) \notin SupportedExt =>
                         <<b[i], "ValueError: Unsupported file type">> \in last'.reported]_vars

\* C7 witness: a batch with an unsupported file ahead of a loadable one, whose
\* chunks are in the index.
BatchWithBadFileIndexed ==
    /\ last.op = "add_documents" /\ last.embed_fail = {}
    /\ <<"photo.png", "ValueError: Unsupported file type">> \in last.reported
    /\ last.chunks = 2
    /\ CountOf(vectorstore.entries, "resume.pdf") = 2

\* C8: in an add_documents over several documents, an embedding failure on the
\* chunks of one document leaves the other documents of the batch unaffected:
\* their chunks are in the index afterwards.
EmbeddingFailureIsPerDocument ==
    [][IsAdd(last') =>
          \A f \in Loadable(last'.file_paths, uploads) \ last'.embed_fail :
             CountOf(vectorstore'.entries, f)
                = CountOf(vectorstore.entries, f) + NumChunks(f)]_vars

\* C9: an add_documents whose embedding succeeds turns an index of n entries
\* into one of n + m entries, m the chunks of the batch, the n old entries
\* first and no identifier used twice; one whose embedding fails leaves the
\* index as it was; and within a session the count get_document_count reports
\* decreases at no step other than a clear_all_data.
IndexIsAppendOnly ==
    [][/\ IsAdd(last') =>
             LET n == get_document_count(vectorstore)
                 m == last'.chunks
             IN IF last'.embed_fail = {}
                THEN /\ get_document_count(vectorstore') = n + m
                     /\ Len(vectorstore'.entries) = n + m
                     /\ SubSeq(vectorstore'.entries, 1, n) = vectorstore.entries
                     /\ (m > 0 => vectorstore'.set)
                ELSE vectorstore' = vectorstore
       /\ last'.op \notin {"clear_all_data", "__init__"} =>
             get_document_count(vectorstore') >= get_document_count(vectorstore)]_vars

\* C9 witness: the same file ingested twice, its chunk in the index twice under
\* two identifiers.
SameFileIndexedTwice ==
    /\ last.op = "add_documents"
    /\ \E i, j \in 1..Len(vectorstore.entries) :
          /\ i < j
          /\ vectorstore.entries[i].source_file = vectorstore.entries[j].source_file
          /\ vectorstore.entries[i].part = vectorstore.entries[j].part
          /\ vectorstore.entries[i].id # vectorstore.entries[j].id
    /\ get_document_count(vectorstore) = Len(vectorstore.entries)

Range(seq) == {seq[i] : i \in 1..Len(seq)}

\* C10: when two overlapping add_documents calls have both returned, each
\* having embedded and saved its batch, the index in memory and the index on
\* disk both hold the entries of both batches.
OverlappingAddsLoseNothing ==
    (\A t \in Threads : adds[t].pc = "done" /\ adds[t].embedded /\ adds[t].saved) =>
        \A t \in Threads :
           /\ Range(adds[t].new) \subseteq Range(vectorstore.entries)
           /\ Range(adds[t].new) \subseteq Range(disk.entries)

LoadFailed(o) == o.op = "__init__" /\ o.response = "Error loading vector store"

\* C11: a construction whose load of the saved index raises completes with
\* vectorstore None, qa_chain None and a chunk count of 0; and an add_documents
\* that succeeds on a session without an index (the one right after the failed
\* load included) builds an index of exactly the chunks of its batch, under
\* new identifiers, none of them an entry of the index that failed to load.
FailedLoadStartsEmpty ==
    [][/\ LoadFailed(last') =>
             /\ last'.outcome = "ok"
             /\ ~vectorstore'.set
             /\ ~Ready(qa_chain')
             /\ get_document_count(vectorstore') = 0
             /\ memory' = <<>>
       /\ (~vectorstore.set /\ IsAdd(last') /\ last'.embed_fail = {} /\ last'.chunks > 0) =>
             /\ vectorstore'.set
             /\ Ready(qa_chain')
             /\ get_document_count(vectorstore') = last'.chunks
             /\ Len(vectorstore'.entries) = last'.chunks
             /\ \A i \in 1..Len(vectorstore'.entries) :
                   /\ vectorstore'.entries[i].id > nextId
                   /\ vectorstore'.entries[i].source_file
                         \in Loadable(last'.file_paths, uploads)
             /\ Range(vectorstore'.entries) \cap Range(disk.entries) = {}]_vars

\* C11 witness: a session constructed over a saved index of ingested chunks
\* whose load raised: it runs, without an index.
SessionAfterFailedLoad ==
    /\ LoadFailed(last) /\ last.outcome = "ok"
    /\ disk.present /\ disk.intact /\ Len(disk.entries) > 0
    /\ ~vectorstore.set /\ ~Ready(qa_chain)

\* The index a JobSearchAI constructed now would hold, its load not failing
\* on a sound index.
RestartWouldLoad(d) == IF d.present /\ d.intact THEN Store(d.entries) ELSE NoneStore

\* C12: after every add_documents or clear_all_data that returned, the index
\* on disk agrees with the index in memory: a JobSearchAI constructed at that
\* point loads exactly the entries the running session holds, and is ready if
\* and only if the running session is ready.
DiskAgreesWithMemory ==
    (last.op \in {"add_documents", "clear_all_data"} /\ last.outcome = "ok") =>
        /\ RestartWouldLoad(disk) = vectorstore
        /\ Ready(setup_qa_chain(RestartWouldLoad(disk), "None")) <=> Ready(qa_chain)
====
